---- MODULE Spec2Model ----
(***************************************************************************)
(* The graph-batch preprocessing and sequencing pipeline of GraphGallery's *)
(* GCN, FastGCN and RobustGCN model wrappers, and raise_if_kwargs.         *)
(*                                                                         *)
(* A matrix or tensor is a record that says which nodes its rows and       *)
(* columns stand for, whether it is stored sparse, which normalization was *)
(* applied to it and over which node extent the degrees were taken.  The   *)
(* numeric entries follow from the graph's edge set and these fields.      *)
(***************************************************************************)
EXTENDS Integers, Sequences, FiniteSets, TLC

VARIABLES
    model,      \* the model object the caller holds, or NoModel
    error,      \* the exception the last operation raised, or None
    lastCall,   \* the last operation: its name, its index argument before
                \* and after the call, the normalizers it invoked, the
                \* construction steps it ran, the transformer arguments of
                \* a constructor call
    sequence,   \* the sequencer the caller holds, or NoSeq
    batch,      \* what the last get_batch / predict returned, or NoBatch
    rng,        \* state of the process-wide random generator
    nDraws,     \* sampled draws made since the generator was seeded
    kwargs,     \* the mapping handed to raise_if_kwargs (keys in order)
    kwResult    \* what raise_if_kwargs did with it

vars == <<model, error, lastCall, sequence, batch, rng, nDraws, kwargs, kwResult>>

-----------------------------------------------------------------------------
(* Bounds *)

NumNodes == 3
MaxIdx == 2
MaxBatch == 2
MaxRank == 2
SeedValue == 1
MaxDraws == 2
RngMod == 4
MaxKw == 3

-----------------------------------------------------------------------------
(* Values *)

None == "None"
NoModel == [kind |-> None]
NoSeq == [type |-> None]
NoBatch == [type |-> None]
NoCall == [op |-> None, index |-> <<>>, indexAfter |-> <<>>, invoked |-> {},
           steps |-> <<>>, args |-> <<>>]

PyNone == [t |-> None, v |-> <<>>]
PyList(s) == [t |-> "list", v |-> s]

Nodes == 0 .. NumNodes - 1
NodeSeq == [k \in 1 .. NumNodes |-> k - 1]

RECURSIVE SeqsUpTo(_, _)
SeqsUpTo(S, n) ==
    IF n = 0 THEN {<<>>}
    ELSE LET shorter == SeqsUpTo(S, n - 1)
         IN  shorter \cup {Append(s, e) : s \in shorter, e \in S}

Range(s) == {s[k] : k \in DOMAIN s}

Reverse(s) == [k \in 1 .. Len(s) |-> s[Len(s) + 1 - k]]

\* index subsets that are a run of consecutive nodes, up to all of them
IndexRuns ==
    {SubSeq(NodeSeq, a, b) : a \in 1 .. NumNodes, b \in 0 .. NumNodes}

\* the runs that start at node 0
IndexPrefixes == {SubSeq(NodeSeq, 1, b) : b \in 0 .. NumNodes}

\* ordered index subsets of at most MaxIdx nodes: runs, ascending or descending
IndexSubsets ==
    {s \in IndexRuns \cup {Reverse(r) : r \in IndexRuns} : Len(s) <= MaxIdx}

\* two symmetric graphs on the same nodes: a ring, and a chain whose last
\* node is isolated
RingEdges ==
    {e \in Nodes \X Nodes :
        e[1] # e[2] /\ (e[2] = (e[1] + 1) % NumNodes \/ e[1] = (e[2] + 1) % NumNodes)}
ChainEdges ==
    {e \in (0 .. NumNodes - 2) \X (0 .. NumNodes - 2) :
        e[2] = e[1] + 1 \/ e[1] = e[2] + 1}
EdgeSets == {RingEdges, ChainEdges}

\* a numpy / scipy array; to_tensor makes a tensor of it
Array(of, rows, cols, sparse, edges) ==
    [t |-> "array", of |-> of, rows |-> rows, cols |-> cols, sparse |-> sparse,
     edges |-> edges, norm |-> None, extent |-> <<>>, prop |-> <<>>]

AdjMatrix(edges, sparse) == Array("adj", NodeSeq, NodeSeq, sparse, edges)
AttrMatrix(rows) == Array("attr", rows, <<>>, FALSE, {})
LabelVector == Array("labels", NodeSeq, <<>>, FALSE, {})
IndexArray(index) == Array("index", index, <<>>, FALSE, {})

\* an attribute matrix with one row per node, and one that is a row short
AttrInputs == {AttrMatrix(NodeSeq), AttrMatrix(SubSeq(NodeSeq, 1, NumNodes - 1))}

LeadingDim(tensor) == Len(tensor.rows)

Res(err, self, ret, indexAfter, invoked, steps) ==
    [error |-> err, self |-> self, ret |-> ret, indexAfter |-> indexAfter,
     invoked |-> invoked, steps |-> steps]

-----------------------------------------------------------------------------
(* Collaborators *)

\* x[index]: the rows at the given positions
SelectRows(m, index) ==
    [m EXCEPT !.rows = [k \in 1 .. Len(index) |-> m.rows[index[k] + 1]]]

\* x[:, index]: the columns at the given positions
SelectCols(m, index) ==
    [m EXCEPT !.cols = [k \in 1 .. Len(index) |-> m.cols[index[k] + 1]]]

to_int(index) == [k \in 1 .. Len(index) |-> index[k]]

\* D^rate A D^rate over the matrix as given; no rate, no normalization
normalize_one(adj, rate) ==
    IF rate = None THEN adj
    ELSE [adj EXCEPT !.norm = rate, !.extent = adj.rows]

\* one matrix and one rate, or a list of matrices paired positionally with a
\* list of rates
normalize_adj(adj, rate) ==
    IF adj.t = "list"
    THEN PyList([k \in 1 .. Len(adj.v) |-> normalize_one(adj.v[k], rate.v[k])])
    ELSE normalize_one(adj, rate)

AttrKinds == {"row_wise", "column_wise"}

\* normalize_fn(kind): the attribute normalizer of that kind, None for None
normalize_fn(kind) ==
    IF kind = None THEN [error |-> None, fn |-> None]
    ELSE IF kind \in AttrKinds THEN [error |-> None, fn |-> kind]
    ELSE [error |-> "UnsupportedNormalizationError", fn |-> None]

norm_x(fn, x) == [x EXCEPT !.norm = fn, !.extent = x.rows]

KnownTransforms == {"normalize_adj", "normalize_attr"}

\* T.get(spec): a recognized name, or None for the identity
T_get(spec) ==
    IF spec = None THEN [error |-> None, fn |-> "identity"]
    ELSE IF spec \in KnownTransforms THEN [error |-> None, fn |-> spec]
    ELSE [error |-> "UnknownTransformError", fn |-> None]

Transform(fn, m) ==
    IF fn = "normalize_adj" THEN normalize_one(m, "-0.5")
    ELSE IF fn = "normalize_attr" THEN norm_x("row_wise", m)
    ELSE m

Normalizers(fns) == fns \cap (KnownTransforms \cup AttrKinds)

\* to_tensor / T.astensors: an array becomes a tensor of the same shape and
\* sparsity, a list the list of its tensors
RECURSIVE to_tensor(_)
to_tensor(v) ==
    IF v.t = "list" THEN PyList([k \in 1 .. Len(v.v) |-> to_tensor(v.v[k])])
    ELSE [v EXCEPT !.t = "tensor"]

\* *value in a call: the items of a list; a dense tensor iterates over its
\* rows; a sparse tensor is not iterable
Unpack(v) ==
    IF v.t = "list" THEN [error |-> None, items |-> v.v]
    ELSE IF v.sparse THEN [error |-> "TypeError", items |-> <<>>]
    ELSE [error |-> None,
          items |-> [k \in 1 .. Len(v.rows) |-> [v EXCEPT !.rows = <<v.rows[k]>>]]]

\* an optional integer argument left at None
Absent == 0

\* np.random.seed(seed)
SeedState(seed) == seed % RngMod

\* a constructor that leaves the generator as it finds it
Unseeded(seed, s) == s

\* the generator after a constructor call with this seed: seeded with it, or
\* left as it is without one
Seeded(seed, s) == IF seed # Absent THEN SeedState(seed) ELSE s

\* one step of the generator
RngNext(s) == (s + 1) % RngMod

\* SupervisedModel.__init__: keeps the graph data, seeds the generators
Super_init(kind, adj, x, labels, seed) ==
    [kind |-> kind, adj |-> adj, x |-> x, labels |-> labels, seed |-> seed,
     built |-> FALSE]

\* SupervisedModel.preprocess: features, adjacency and labels must agree in
\* their leading dimension
Super_preprocess(adj, x) ==
    IF LeadingDim(adj) = LeadingDim(x) THEN None ELSE "ShapeMismatchError"

-----------------------------------------------------------------------------
(* Sequencers *)

FullBatchNodeSequence(inputs, labels) ==
    [type |-> "FullBatchNodeSequence", inputs |-> to_tensor(PyList(inputs)).v,
     labels |-> to_tensor(labels)]

FastGCNBatchSequence(x, adj, labels, batch_size, rank) ==
    [type |-> "FastGCNBatchSequence", x |-> x, adj |-> adj, labels |-> labels,
     batch_size |-> batch_size, rank |-> rank]

-----------------------------------------------------------------------------
(* FastGCN *)

FastGCN_preprocess(self, adj, x) ==
    LET chk == Super_preprocess(adj, x)
        rate == self.norm_adj_rate
        fn == self.norm_x_fn
        adj1 == IF rate # None THEN normalize_adj(adj, rate) ELSE adj
        x1 == IF fn # None THEN norm_x(fn, x) ELSE x
        x2 == [x1 EXCEPT !.prop = <<adj1.norm>>]
        invoked == (IF rate # None THEN {"normalize_adj"} ELSE {})
                       \cup (IF fn # None THEN {fn} ELSE {})
    IN  IF chk # None THEN Res(chk, self, NoModel, <<>>, {}, <<"preprocess">>)
        ELSE Res(None, [tf_x |-> to_tensor(x2), adj_norm |-> adj1] @@ self,
                 NoModel, <<>>, invoked, <<"preprocess">>)

\* FastGCN.__init__ taking an unknown normalization kind for no normalization
FastGCN_init_coerced(adj, x, labels, norm_adj_rate, norm_x_type, batch_size, rank, seed) ==
    LET self0 == Super_init("FastGCN", adj, x, labels, seed)
        self1 == [rank |-> rank, batch_size |-> batch_size,
                  norm_adj_rate |-> norm_adj_rate] @@ self0
        fn == normalize_fn(norm_x_type)
        self2 == [norm_x_fn |-> fn.fn] @@ self1
        pre == FastGCN_preprocess(self2, adj, x)
    IN  Res(pre.error, pre.self, IF pre.error = None THEN pre.self ELSE NoModel,
            <<>>, pre.invoked, <<"super", "normalize_fn">> \o pre.steps)

FastGCN_init(adj, x, labels, norm_adj_rate, norm_x_type, batch_size, rank, seed) ==
    LET self0 == Super_init("FastGCN", adj, x, labels, seed)
        self1 == [rank |-> rank, batch_size |-> batch_size,
                  norm_adj_rate |-> norm_adj_rate] @@ self0
        fn == normalize_fn(norm_x_type)
        self2 == [norm_x_fn |-> fn.fn] @@ self1
        pre == FastGCN_preprocess(self2, adj, x)
    IN  IF fn.error # None
        THEN Res(fn.error, self1, NoModel, <<>>, {}, <<"super", "normalize_fn">>)
        ELSE Res(pre.error, pre.self, IF pre.error = None THEN pre.self ELSE NoModel,
                 <<>>, pre.invoked, <<"super", "normalize_fn">> \o pre.steps)

\* a model that was never built has no self.model to predict with
Super_predict(self) == IF self.built THEN None ELSE "RuntimeError"

FastGCN_predict(self, index) ==
    LET chk == Super_predict(self)
        idx == to_int(index)
        adj == to_tensor(SelectRows(self.adj_norm, idx))
    IN  IF chk # None THEN Res(chk, self, NoBatch, index, {}, <<>>)
        ELSE Res(None, self,
                 [type |-> "logit", inputs |-> <<self.tf_x, adj>>, rows |-> idx],
                 index, {}, <<>>)

\* FastGCN.train_sequence keeping the matrix it normalized as the model's
\* cached adjacency
FastGCN_train_sequence_caching(self, index) ==
    LET idx == to_int(index)
        labels == SelectRows(self.labels, idx)
        adj == SelectCols(SelectRows(self.adj, idx), idx)
        rate == self.norm_adj_rate
        adj1 == IF rate # None THEN normalize_adj(adj, rate) ELSE adj
        x == SelectRows(self.tf_x, idx)
    IN  Res(None, [self EXCEPT !.adj_norm = adj1],
            FastGCNBatchSequence(x, adj1, labels, self.batch_size, self.rank),
            index, IF rate # None THEN {"normalize_adj"} ELSE {}, <<>>)

\* FastGCN.train_sequence passing the label vector of every node
FastGCN_train_sequence_all_labels(self, index) ==
    LET idx == to_int(index)
        adj == SelectCols(SelectRows(self.adj, idx), idx)
        rate == self.norm_adj_rate
        adj1 == IF rate # None THEN normalize_adj(adj, rate) ELSE adj
        x == SelectRows(self.tf_x, idx)
    IN  Res(None, self,
            FastGCNBatchSequence(x, adj1, self.labels, self.batch_size, self.rank),
            index, IF rate # None THEN {"normalize_adj"} ELSE {}, <<>>)

FastGCN_train_sequence(self, index) ==
    LET idx == to_int(index)
        labels == SelectRows(self.labels, idx)
        adj == SelectCols(SelectRows(self.adj, idx), idx)
        rate == self.norm_adj_rate
        adj1 == IF rate # None THEN normalize_adj(adj, rate) ELSE adj
        x == SelectRows(self.tf_x, idx)
    IN  Res(None, self,
            FastGCNBatchSequence(x, adj1, labels, self.batch_size, self.rank),
            index, IF rate # None THEN {"normalize_adj"} ELSE {}, <<>>)

\* FastGCN.test_sequence normalizing the row slice again, as train_sequence does
FastGCN_test_sequence_renormalized(self, index) ==
    LET idx == to_int(index)
        labels == SelectRows(self.labels, idx)
        adj == SelectRows(self.adj, idx)
        rate == self.norm_adj_rate
        adj1 == IF rate # None THEN normalize_adj(adj, rate) ELSE adj
    IN  Res(None, self, FastGCNBatchSequence(self.tf_x, adj1, labels, Absent, Absent),
            index, IF rate # None THEN {"normalize_adj"} ELSE {}, <<>>)

FastGCN_test_sequence(self, index) ==
    LET idx == to_int(index)
        labels == SelectRows(self.labels, idx)
        adj == SelectRows(self.adj_norm, idx)
    IN  Res(None, self, FastGCNBatchSequence(self.tf_x, adj, labels, Absent, Absent),
            index, {}, <<>>)

-----------------------------------------------------------------------------
(* RobustGCN *)

RobustGCN_preprocess(self, adj, x) ==
    LET chk == Super_preprocess(adj, x)
        rate == self.norm_adj_rate
        fn == self.norm_x_fn
        adj1 == IF rate # PyNone THEN normalize_adj(PyList(<<adj, adj>>), rate) ELSE adj
        x1 == IF fn # None THEN norm_x(fn, x) ELSE x
        tensors == to_tensor(PyList(<<x1, adj1>>)).v
        invoked == (IF rate # PyNone THEN {"normalize_adj"} ELSE {})
                       \cup (IF fn # None THEN {fn} ELSE {})
    IN  IF chk # None THEN Res(chk, self, NoModel, <<>>, {}, <<"preprocess">>)
        ELSE Res(None, [tf_x |-> tensors[1], tf_adj |-> tensors[2]] @@ self,
                 NoModel, <<>>, invoked, <<"preprocess">>)

RobustGCN_init(adj, x, labels, norm_adj_rate, norm_x_type, seed) ==
    LET self0 == Super_init("RobustGCN", adj, x, labels, seed)
        self1 == [norm_adj_rate |-> norm_adj_rate] @@ self0
        fn == normalize_fn(norm_x_type)
        self2 == [norm_x_fn |-> fn.fn] @@ self1
        pre == RobustGCN_preprocess(self2, adj, x)
    IN  IF fn.error # None
        THEN Res(fn.error, self1, NoModel, <<>>, {}, <<"super", "normalize_fn">>)
        ELSE Res(pre.error, pre.self, IF pre.error = None THEN pre.self ELSE NoModel,
                 <<>>, pre.invoked, <<"super", "normalize_fn">> \o pre.steps)

RobustGCN_train_sequence(self, index) ==
    LET idx == to_int(index)
        labels == SelectRows(self.labels, idx)
        adjs == Unpack(self.tf_adj)
    IN  IF adjs.error # None THEN Res(adjs.error, self, NoSeq, index, {}, <<>>)
        ELSE Res(None, self,
                 FullBatchNodeSequence(<<self.tf_x>> \o adjs.items \o <<IndexArray(idx)>>,
                                       labels),
                 index, {}, <<>>)

RobustGCN_predict(self, index) ==
    LET chk == Super_predict(self)
        idx == to_int(index)
        adjs == Unpack(self.tf_adj)
    IN  IF chk # None THEN Res(chk, self, NoBatch, index, {}, <<>>)
        ELSE IF adjs.error # None THEN Res(adjs.error, self, NoBatch, index, {}, <<>>)
        ELSE Res(None, self,
                 [type |-> "logit",
                  inputs |-> <<self.tf_x>> \o adjs.items \o <<to_tensor(IndexArray(idx))>>,
                  rows |-> idx],
                 index, {}, <<>>)

-----------------------------------------------------------------------------
(* GCN *)

GCN_process_step(self) ==
    LET graph == self.graph
        adj_matrix == Transform(self.adj_transformer, graph.adj_matrix)
        attr_matrix == Transform(self.attr_transformer, graph.attr_matrix)
        tensors == to_tensor(PyList(<<attr_matrix, adj_matrix>>)).v
    IN  Res(None, [feature_inputs |-> tensors[1], structure_inputs |-> tensors[2]] @@ self,
            NoModel, <<>>,
            Normalizers({self.adj_transformer, self.attr_transformer}),
            <<"process">>)

GCN_init(graph, adj_transformer, attr_transformer, seed) ==
    LET self0 == [kind |-> "GCN", graph |-> graph, seed |-> seed, built |-> FALSE]
        adj_t == T_get(adj_transformer)
        attr_t == T_get(attr_transformer)
        self1 == [adj_transformer |-> adj_t.fn] @@ self0
        self2 == [attr_transformer |-> attr_t.fn] @@ self1
        pre == GCN_process_step(self2)
    IN  IF adj_t.error # None
        THEN Res(adj_t.error, self0, NoModel, <<>>, {}, <<"super", "T.get">>)
        ELSE IF attr_t.error # None
        THEN Res(attr_t.error, self1, NoModel, <<>>, {}, <<"super", "T.get", "T.get">>)
        ELSE Res(None, pre.self, pre.self, <<>>, pre.invoked,
                 <<"super", "T.get", "T.get">> \o pre.steps)

\* GCN.train_sequence building a mini-batch sequence of batch size 1
GCN_train_sequence_minibatch(self, index) ==
    LET idx == to_int(index)
        labels == SelectRows(self.graph.labels, idx)
    IN  Res(None, self,
            FastGCNBatchSequence(self.feature_inputs, self.structure_inputs, labels,
                                 1, Absent),
            index, {}, <<>>)

\* GCN.train_sequence passing the label vector of every node
GCN_train_sequence_all_labels(self, index) ==
    LET idx == to_int(index)
    IN  Res(None, self,
            FullBatchNodeSequence(
                <<self.feature_inputs, self.structure_inputs, IndexArray(idx)>>,
                self.graph.labels),
            index, {}, <<>>)

GCN_train_sequence(self, index) ==
    LET idx == to_int(index)
        labels == SelectRows(self.graph.labels, idx)
    IN  Res(None, self,
            FullBatchNodeSequence(
                <<self.feature_inputs, self.structure_inputs, IndexArray(idx)>>, labels),
            index, {}, <<>>)

-----------------------------------------------------------------------------
(* Sequencer operations *)

Min(a, b) == IF a < b THEN a ELSE b

RECURSIVE Pow(_, _)
Pow(b, e) == IF e = 0 THEN 1 ELSE b * Pow(b, e - 1)

RECURSIVE SumSeq(_)
SumSeq(s) == IF s = <<>> THEN 0 ELSE Head(s) + SumSeq(Tail(s))

RECURSIVE ProdSeq(_)
ProdSeq(s) == IF s = <<>> THEN 1 ELSE Head(s) * ProdSeq(Tail(s))

RECURSIVE Concat(_)
Concat(ss) == IF ss = <<>> THEN <<>> ELSE Head(ss) \o Concat(Tail(ss))

\* __len__: one batch without a batch size, else ceil(N / batch_size)
Length(seq) ==
    IF seq.type = "FullBatchNodeSequence" THEN 1
    ELSE IF seq.batch_size = Absent THEN 1
    ELSE (LeadingDim(seq.adj) + seq.batch_size - 1) \div seq.batch_size

\* the row positions of batch i: batch_size rows from i * batch_size on, fewer
\* in the last batch; every row without a batch size
BatchSlice(seq, i) ==
    LET N == LeadingDim(seq.adj)
        lo == IF seq.batch_size = Absent THEN 0 ELSE i * seq.batch_size
        hi == IF seq.batch_size = Absent THEN N ELSE Min(N, lo + seq.batch_size)
    IN  [k \in 1 .. (hi - lo) |-> lo + k - 1]

\* row sum of node v in the matrix the degrees were taken over
Degree(adj, v) == Cardinality({u \in Range(adj.extent) : <<v, u>> \in adj.edges})

\* -2 * rate: an entry a of A becomes a * (d_r * d_c)^rate
RateExponent(rate) ==
    CASE rate = "-0.5" -> 1
      [] rate = "-1" -> 2
      [] OTHER -> 0

\* a common multiple that makes every squared entry an integer
Scale(adj) ==
    Pow(ProdSeq([k \in 1 .. Len(adj.extent) |->
                    IF Degree(adj, adj.extent[k]) = 0 THEN 1
                    ELSE Degree(adj, adj.extent[k])]),
        2 * RateExponent(adj.norm))

\* Scale times the squared entry at (node r, node c); a node without
\* neighbours scales by 0
SquaredEntry(adj, r, c) ==
    IF <<r, c>> \notin adj.edges THEN 0
    ELSE IF adj.norm = None THEN 1
    ELSE IF Degree(adj, r) = 0 \/ Degree(adj, c) = 0 THEN 0
    ELSE Scale(adj) \div Pow(Degree(adj, r) * Degree(adj, c), RateExponent(adj.norm))

\* the sampling weight of column c: its squared norm within the batch rows
ColumnWeight(adj, c) ==
    SumSeq([k \in 1 .. Len(adj.rows) |-> SquaredEntry(adj, adj.rows[k], adj.cols[c])])

RECURSIVE Filter(_, _)
Filter(s, w) ==
    IF s = <<>> THEN <<>>
    ELSE (IF w[Head(s) + 1] > 0 THEN <<Head(s)>> ELSE <<>>) \o Filter(Tail(s), w)

RECURSIVE Without(_, _)
Without(s, e) ==
    IF s = <<>> THEN <<>>
    ELSE (IF Head(s) = e THEN <<>> ELSE <<Head(s)>>) \o Without(Tail(s), e)

\* the candidate at which the cumulative weight passes u
RECURSIVE Pick(_, _, _)
Pick(w, cands, u) ==
    IF Len(cands) = 1 \/ u < w[Head(cands) + 1] THEN Head(cands)
    ELSE Pick(w, Tail(cands), u - w[Head(cands) + 1])

\* np.random.choice(cands, k, replace=False, p=w / sum(w)): one number of the
\* generator per column drawn
RECURSIVE Choice(_, _, _, _)
Choice(w, cands, k, s) ==
    IF k = 0 THEN [cols |-> <<>>, rng |-> s]
    ELSE LET total == SumSeq([j \in 1 .. Len(cands) |-> w[cands[j] + 1]])
             c == Pick(w, cands, (s * total) \div RngMod)
             rest == Choice(w, Without(cands, c), k - 1, RngNext(s))
         IN  [cols |-> <<c>> \o rest.cols, rng |-> rest.rng]

FullBatch_getitem(seq, i) ==
    IF i # 0 THEN [error |-> "IndexOutOfRangeError", ret |-> NoBatch]
    ELSE [error |-> None,
          ret |-> [type |-> "batch", inputs |-> seq.inputs, labels |-> seq.labels,
                   cols |-> <<>>]]

FastGCN_getitem(seq, i, s) ==
    LET slice == BatchSlice(seq, i)
        labels == SelectRows(seq.labels, slice)
        adj == SelectRows(seq.adj, slice)
        w == [c \in 1 .. Len(adj.cols) |-> ColumnWeight(adj, c)]
        cands == Filter([c \in 1 .. Len(adj.cols) |-> c - 1], w)
        drawn == Choice(w, cands, seq.rank, s)
    IN  IF i < 0 \/ i >= Length(seq)
        THEN [error |-> "IndexOutOfRangeError", ret |-> NoBatch, rng |-> s]
        ELSE IF seq.rank = Absent
        THEN [error |-> None,
              ret |-> [type |-> "batch", inputs |-> <<seq.x, to_tensor(adj)>>,
                       labels |-> to_tensor(labels), cols |-> <<>>],
              rng |-> s]
        ELSE IF seq.rank > Len(cands)
        THEN [error |-> "InvalidSampleSizeError", ret |-> NoBatch, rng |-> s]
        ELSE [error |-> None,
              ret |-> [type |-> "batch",
                       inputs |-> <<SelectRows(seq.x, drawn.cols),
                                    to_tensor([SelectCols(adj, drawn.cols)
                                                  EXCEPT !.prop = <<"1/(rank*p)">>])>>,
                       labels |-> to_tensor(labels), cols |-> drawn.cols],
              rng |-> drawn.rng]

-----------------------------------------------------------------------------
(* raise_if_kwargs *)

\* raise_if_kwargs naming the last key
raise_if_kwargs_last_key(kw) ==
    IF Len(kw) > 0
    THEN [raised |-> "TypeError", key |-> kw[Len(kw)].key, kwargs |-> kw]
    ELSE [raised |-> None, key |-> None, kwargs |-> kw]

raise_if_kwargs(kw) ==
    IF Len(kw) > 0
    THEN [raised |-> "TypeError", key |-> kw[1].key, kwargs |-> kw]
    ELSE [raised |-> None, key |-> None, kwargs |-> kw]

-----------------------------------------------------------------------------
(* Inputs *)

Seeds == {Absent, SeedValue}
BatchSizes == 1 .. MaxBatch
Ranks == 1 .. MaxRank
RngStates == 0 .. RngMod - 1
FastRates == {None, "-0.5"}
RobustRates == {PyNone, PyList(<<"-0.5", "-1">>)}
AttrTypes == {None, "row_wise", "l3"}
AdjTransformers == {"normalize_adj", None, "normalise_adj"}
AttrTransformers == {None, "normalize_attr", "normalise_attr"}
BatchIndices == -1 .. NumNodes
ListLengths == 1 .. 2

Graph(edges) ==
    [adj_matrix |-> AdjMatrix(edges, TRUE), attr_matrix |-> AttrMatrix(NodeSeq),
     labels |-> LabelVector]

KwKeys == {"lr", "epochs", "verbose"}
KwValues == {0, 1}
KwInputs ==
    {kw \in SeqsUpTo([key : KwKeys, value : KwValues], Min(MaxKw, Cardinality(KwKeys))) :
        \A a, b \in DOMAIN kw : kw[a].key = kw[b].key => a = b}

-----------------------------------------------------------------------------
(* Actions *)

Call(op, index, r) ==
    [op |-> op, index |-> index, indexAfter |-> r.indexAfter, invoked |-> r.invoked,
     steps |-> r.steps, args |-> <<>>]

\* model = Model(...): the caller holds the model only when __init__ returns
Construct(r, seed, args) ==
    /\ model = NoModel
    /\ error' = r.error
    /\ model' = r.ret
    /\ lastCall' = [Call("__init__", <<>>, r) EXCEPT !.args = args]
    /\ rng' = Seeded(seed, rng)
    /\ nDraws' = IF seed # Absent THEN 0 ELSE nDraws
    /\ batch' = NoBatch
    /\ UNCHANGED <<sequence, kwargs, kwResult>>

\* the lifecycle is explored on the ring graph; the sampling specification
\* also draws from the chain with an isolated node
NewGCN ==
    \E edges \in {RingEdges}, adj_transformer \in AdjTransformers,
       attr_transformer \in AttrTransformers, seed \in Seeds :
        Construct(GCN_init(Graph(edges), adj_transformer, attr_transformer, seed), seed,
                  <<"GCN", adj_transformer, attr_transformer>>)

NewFastGCN ==
    \E edges \in {RingEdges}, x \in AttrInputs, norm_adj_rate \in FastRates,
       norm_x_type \in AttrTypes, batch_size \in BatchSizes, rank \in Ranks,
       seed \in Seeds :
        Construct(FastGCN_init(AdjMatrix(edges, TRUE), x, LabelVector, norm_adj_rate,
                               norm_x_type, batch_size, rank, seed), seed,
                  <<"FastGCN", norm_x_type>>)

NewRobustGCN ==
    \E edges \in {RingEdges}, sparse \in BOOLEAN, x \in AttrInputs,
       norm_adj_rate \in RobustRates, norm_x_type \in AttrTypes, seed \in Seeds :
        Construct(RobustGCN_init(AdjMatrix(edges, sparse), x, LabelVector, norm_adj_rate,
                                 norm_x_type, seed), seed,
                  <<"RobustGCN", norm_x_type>>)

\* build(hiddens, activations): FastGCN and RobustGCN assert equal lengths,
\* GCN's decorator makes them equal
Build ==
    \E hiddens \in ListLengths, activations \in ListLengths :
        /\ model # NoModel
        /\ LET ok == model.kind = "GCN" \/ hiddens = activations
           IN  /\ error' = IF ok THEN None ELSE "AssertionError"
               /\ model' = IF ok THEN [model EXCEPT !.built = TRUE] ELSE model
        /\ lastCall' = [NoCall EXCEPT !.op = "build"]
        /\ batch' = NoBatch
        /\ UNCHANGED <<sequence, rng, nDraws, kwargs, kwResult>>

\* an explicit second run of the preprocess step on the model's own graph
Preprocess ==
    /\ model # NoModel
    /\ LET r == CASE model.kind = "GCN" -> GCN_process_step(model)
                  [] model.kind = "FastGCN" -> FastGCN_preprocess(model, model.adj, model.x)
                  [] model.kind = "RobustGCN" ->
                         RobustGCN_preprocess(model, model.adj, model.x)
       IN  /\ error' = r.error
           /\ model' = r.self
           /\ lastCall' = Call("preprocess", <<>>, r)
    /\ batch' = NoBatch
    /\ UNCHANGED <<sequence, rng, nDraws, kwargs, kwResult>>

TrainSequence(indices) ==
    \E index \in indices :
        /\ model # NoModel
        /\ LET r == CASE model.kind = "GCN" -> GCN_train_sequence(model, index)
                      [] model.kind = "FastGCN" -> FastGCN_train_sequence(model, index)
                      [] model.kind = "RobustGCN" -> RobustGCN_train_sequence(model, index)
           IN  /\ error' = r.error
               /\ model' = r.self
               /\ sequence' = IF r.error = None THEN r.ret ELSE sequence
               /\ lastCall' = Call("train_sequence", index, r)
        /\ batch' = NoBatch
        /\ UNCHANGED <<rng, nDraws, kwargs, kwResult>>

TestSequence(indices) ==
    \E index \in indices :
        /\ model.kind = "FastGCN"
        /\ LET r == FastGCN_test_sequence(model, index)
           IN  /\ error' = r.error
               /\ model' = r.self
               /\ sequence' = IF r.error = None THEN r.ret ELSE sequence
               /\ lastCall' = Call("test_sequence", index, r)
        /\ batch' = NoBatch
        /\ UNCHANGED <<rng, nDraws, kwargs, kwResult>>

Predict ==
    \E index \in IndexPrefixes :
        /\ model.kind \in {"FastGCN", "RobustGCN"}
        /\ LET r == IF model.kind = "FastGCN" THEN FastGCN_predict(model, index)
                    ELSE RobustGCN_predict(model, index)
           IN  /\ error' = r.error
               /\ model' = r.self
               /\ batch' = r.ret
               /\ lastCall' = Call("predict", index, r)
        /\ UNCHANGED <<sequence, rng, nDraws, kwargs, kwResult>>

FullBatchGetBatch ==
    \E i \in BatchIndices :
        /\ sequence.type = "FullBatchNodeSequence"
        /\ LET r == FullBatch_getitem(sequence, i)
           IN  /\ error' = r.error
               /\ batch' = r.ret
        /\ lastCall' = [NoCall EXCEPT !.op = "get_batch", !.index = <<i>>,
                                      !.indexAfter = <<i>>]
        /\ UNCHANGED <<model, sequence, rng, nDraws, kwargs, kwResult>>

SamplingGetBatch ==
    \E i \in BatchIndices :
        /\ sequence.type = "FastGCNBatchSequence"
        /\ nDraws < MaxDraws
        /\ LET r == FastGCN_getitem(sequence, i, rng)
           IN  /\ error' = r.error
               /\ batch' = r.ret
               /\ rng' = r.rng
               /\ nDraws' = IF r.error = None /\ sequence.rank # Absent
                            THEN nDraws + 1 ELSE nDraws
        /\ lastCall' = [NoCall EXCEPT !.op = "get_batch", !.index = <<i>>,
                                      !.indexAfter = <<i>>]
        /\ UNCHANGED <<model, sequence, kwargs, kwResult>>

\* on_epoch_end: nothing to do, no sequencer here is built with shuffling
OnEpochEnd ==
    /\ sequence # NoSeq
    /\ error' = None
    /\ lastCall' = [NoCall EXCEPT !.op = "on_epoch_end"]
    /\ batch' = NoBatch
    /\ UNCHANGED <<model, sequence, rng, nDraws, kwargs, kwResult>>

RaiseIfKwargs ==
    /\ kwResult = NoCall
    /\ LET r == raise_if_kwargs(kwargs)
       IN  /\ kwResult' = [raised |-> r.raised, key |-> r.key, before |-> kwargs]
           /\ kwargs' = r.kwargs
    /\ UNCHANGED <<model, error, lastCall, sequence, batch, rng, nDraws>>

-----------------------------------------------------------------------------
(* Specifications *)

\* the life of one model: construction, build, sequencers, prediction
Init ==
    /\ model = NoModel
    /\ error = None
    /\ lastCall = NoCall
    /\ sequence = NoSeq
    /\ batch = NoBatch
    /\ rng = 0
    /\ nDraws = 0
    /\ kwargs = <<>>
    /\ kwResult = NoCall

Next ==
    \/ NewGCN
    \/ NewFastGCN
    \/ NewRobustGCN
    \/ Build
    \/ Preprocess
    \/ TrainSequence(IndexSubsets)
    \/ TestSequence(IndexPrefixes)
    \/ Predict
    \/ FullBatchGetBatch
    \/ OnEpochEnd

Spec == Init /\ [][Next]_vars

\* a constructed FastGCN model and the batches drawn from its sequencers
InitSampling ==
    /\ \E edges \in EdgeSets, norm_adj_rate \in FastRates, batch_size \in BatchSizes,
          rank \in Ranks, seed \in Seeds, s \in RngStates :
          /\ model = FastGCN_init(AdjMatrix(edges, TRUE), AttrMatrix(NodeSeq), LabelVector,
                                  norm_adj_rate, None, batch_size, rank, seed).ret
          /\ rng = Seeded(seed, s)
    /\ error = None
    /\ lastCall = NoCall
    /\ sequence = NoSeq
    /\ batch = NoBatch
    /\ nDraws = 0
    /\ kwargs = <<>>
    /\ kwResult = NoCall

NextSampling ==
    \/ TrainSequence(IndexRuns)
    \/ TestSequence(IndexPrefixes)
    \/ SamplingGetBatch
    \/ OnEpochEnd

SpecSampling == InitSampling /\ [][NextSampling]_vars

\* raise_if_kwargs on every mapping of the input set
InitKwargs ==
    /\ model = NoModel
    /\ error = None
    /\ lastCall = NoCall
    /\ sequence = NoSeq
    /\ batch = NoBatch
    /\ rng = 0
    /\ nDraws = 0
    /\ kwargs \in KwInputs
    /\ kwResult = NoCall

NextKwargs == RaiseIfKwargs

SpecKwargs == InitKwargs /\ [][NextKwargs]_vars

-----------------------------------------------------------------------------
(* Properties *)

QueryOps == {"train_sequence", "test_sequence", "predict"}
FullBatchKinds == {"GCN", "RobustGCN"}
Last(s) == s[Len(s)]

\* C1: the sequencer GCN.train_sequence and RobustGCN.train_sequence return is
\* a full-batch sequencer, and whatever get_batch and on_epoch_end calls were
\* made on it, its length is 1, get_batch(0) returns a batch and get_batch(i)
\* for every other i raises IndexOutOfRangeError and returns nothing.
FullBatchExposesOneBatch ==
    (model.kind \in FullBatchKinds /\ sequence # NoSeq) =>
        /\ sequence.type = "FullBatchNodeSequence"
        /\ Length(sequence) = 1
        /\ \A i \in BatchIndices :
               FullBatch_getitem(sequence, i).error
                   = IF i = 0 THEN None ELSE "IndexOutOfRangeError"
        /\ lastCall.op = "get_batch" =>
               IF lastCall.index = <<0>>
               THEN error = None /\ batch.type = "batch"
               ELSE error = "IndexOutOfRangeError" /\ batch = NoBatch

\* C1 witness: get_batch(1) on a full-batch sequencer has failed
FullBatchSecondBatchRefused ==
    /\ sequence.type = "FullBatchNodeSequence"
    /\ lastCall.op = "get_batch"
    /\ lastCall.index = <<1>>
    /\ error = "IndexOutOfRangeError"

\* C2 as stated: in the batch get_batch(0) of a full-batch sequencer returns,
\* every input tensor and the label vector have the leading dimension |index|
\* of the index subset the sequencer was built from.
FullBatchAllInputsIndexSized ==
    (lastCall.op = "train_sequence" /\ error = None /\ model.kind \in FullBatchKinds) =>
        LET b == FullBatch_getitem(sequence, 0).ret
        IN  /\ LeadingDim(b.labels) = Len(lastCall.index)
            /\ \A k \in DOMAIN b.inputs : LeadingDim(b.inputs[k]) = Len(lastCall.index)

\* the adjacency tensors a full-batch model caches
CachedAdjacency(m) ==
    IF m.kind = "GCN" THEN <<m.structure_inputs>> ELSE Unpack(m.tf_adj).items

\* C2 amended: in that batch the label vector and the last input, the index
\* tensor, hold the index subset and so have leading dimension |index|; the
\* first input is the feature tensor of the whole graph, with one row per
\* node, and the inputs between them are the model's cached adjacency tensors
\* as they are, not restricted to the index subset.
FullBatchLabelsAndIndexSized ==
    /\ (lastCall.op = "train_sequence" /\ error = None /\ model.kind \in FullBatchKinds) =>
           LET b == FullBatch_getitem(sequence, 0).ret
               n == Len(b.inputs)
           IN  /\ b.labels.rows = lastCall.index
               /\ LeadingDim(b.labels) = Len(lastCall.index)
               /\ Last(b.inputs).rows = lastCall.index
               /\ LeadingDim(Last(b.inputs)) = Len(lastCall.index)
               /\ LeadingDim(b.inputs[1]) = NumNodes
               /\ SubSeq(b.inputs, 2, n - 1) = CachedAdjacency(model)
               /\ model.kind = "GCN" => LeadingDim(b.inputs[2]) = NumNodes
    /\ (batch.type = "batch" /\ model.kind \in FullBatchKinds) =>
           /\ LeadingDim(batch.labels) = LeadingDim(Last(batch.inputs))
           /\ LeadingDim(batch.inputs[1]) = NumNodes

\* C2 witness: get_batch(0) returned a batch for an index subset smaller than
\* the graph
FullBatchOfProperSubset ==
    /\ batch.type = "batch"
    /\ model.kind = "GCN"
    /\ lastCall.op = "get_batch"
    /\ LeadingDim(batch.labels) = MaxIdx
    /\ LeadingDim(batch.labels) < LeadingDim(batch.inputs[1])

\* the adjacency matrices a sequencer was built from
SequenceAdjacency(seq) ==
    IF seq.type = "FastGCNBatchSequence" THEN <<seq.adj>>
    ELSE SubSeq(seq.inputs, 2, Len(seq.inputs) - 1)

\* the normalization of the model's cached adjacency: its rate and the nodes
\* the degrees were taken over
CachedNormalization(m) ==
    LET cached == CASE m.kind = "GCN" -> <<m.structure_inputs>>
                    [] m.kind = "FastGCN" -> <<m.adj_norm>>
                    [] m.kind = "RobustGCN" -> Unpack(m.tf_adj).items
    IN  [k \in DOMAIN cached |-> <<cached[k].norm, cached[k].extent>>]

SequenceNormalization(seq) ==
    LET adjs == SequenceAdjacency(seq)
    IN  [k \in DOMAIN adjs |-> <<adjs[k].norm, adjs[k].extent>>]

\* C5 as stated: after construction no train_sequence, test_sequence or
\* predict call invokes a normalizer, and every sequencer is built from the
\* cached normalized adjacency.
NormalizersOnlyInPreprocess ==
    (lastCall.op \in QueryOps /\ error = None) =>
        /\ lastCall.invoked = {}
        /\ lastCall.op # "predict" =>
               SequenceNormalization(sequence) = CachedNormalization(model)

\* FastGCN.train_sequence on a model with a normalization rate
Renormalizes == 
    /\ model.kind = "FastGCN"
    /\ lastCall.op = "train_sequence"
    /\ model.norm_adj_rate # None

\* C5 amended: the constructor and an explicit preprocess call invoke the
\* normalizers; of the calls after construction only FastGCN.train_sequence
\* on a model with a normalization rate invokes one, the adjacency normalizer,
\* once per call, on the raw adjacency restricted to the index subset, and its
\* sequencer holds that matrix, normalized over the index subset; every other
\* train_sequence, test_sequence and predict call invokes no normalizer and
\* every other sequencer is built from the cached adjacency.
NormalizersOnlyInPreprocessOrFastTrain ==
    (lastCall.op \in QueryOps /\ error = None) =>
        /\ lastCall.invoked = IF Renormalizes THEN {"normalize_adj"} ELSE {}
        /\ lastCall.op # "predict" =>
               SequenceNormalization(sequence)
                   = IF Renormalizes THEN <<<<model.norm_adj_rate, lastCall.index>>>>
                     ELSE CachedNormalization(model)

\* C5 witness: FastGCN.train_sequence has normalized the adjacency of a
\* two-node index subset again, while the cache is normalized over the graph
FastTrainRenormalized ==
    /\ Renormalizes
    /\ lastCall.invoked = {"normalize_adj"}
    /\ sequence.adj.extent = lastCall.index
    /\ Len(lastCall.index) = MaxIdx
    /\ model.adj_norm.extent = NodeSeq

ResolveErrors == {"UnknownTransformError", "UnsupportedNormalizationError"}
PreprocessSteps == {"preprocess", "process"}

\* the error resolving a constructor's transformer arguments raises, if any:
\* GCN resolves its adjacency transformer, then its attribute transformer;
\* FastGCN and RobustGCN resolve the attribute normalization kind
ResolutionError(args) ==
    IF args[1] = "GCN"
    THEN IF T_get(args[2]).error # None THEN T_get(args[2]).error
         ELSE T_get(args[3]).error
    ELSE normalize_fn(args[2]).error

\* a model that holds its cached feature and adjacency tensors
HoldsCache(m) ==
    CASE m.kind = "GCN" -> {"feature_inputs", "structure_inputs"} \subseteq DOMAIN m
      [] m.kind = "FastGCN" -> {"tf_x", "adj_norm"} \subseteq DOMAIN m
      [] m.kind = "RobustGCN" -> {"tf_x", "tf_adj"} \subseteq DOMAIN m

\* C6: a constructor whose transformer or normalization argument does not
\* resolve raises that error without running the preprocess step, a failing
\* preprocess step raises its error, and in both cases the caller obtains no
\* model; a model the caller holds has resolved transformers and its cached
\* tensors.
FailedConstructionLeavesNoModel ==
    /\ lastCall.op = "__init__" =>
           /\ ResolutionError(lastCall.args) # None =>
                  /\ error = ResolutionError(lastCall.args)
                  /\ Range(lastCall.steps) \cap PreprocessSteps = {}
                  /\ lastCall.invoked = {}
           /\ error # None => model = NoModel
           /\ error = None => model # NoModel
    /\ model # NoModel =>
           /\ HoldsCache(model)
           /\ model.kind = "GCN" =>
                  {model.adj_transformer, model.attr_transformer}
                      \subseteq KnownTransforms \cup {"identity"}
           /\ model.kind # "GCN" => model.norm_x_fn \in AttrKinds \cup {None}

\* C6 witness: a constructor has failed on an unknown normalization kind and
\* the caller holds no model
ConstructionAborted ==
    /\ lastCall.op = "__init__"
    /\ error = "UnsupportedNormalizationError"
    /\ model = NoModel
    /\ lastCall.steps = <<"super", "normalize_fn">>

\* C7: every sequencer FastGCN.train_sequence builds has rank < batch_size.
TrainRankBelowBatchSize ==
    (model.kind = "FastGCN" /\ lastCall.op = "train_sequence" /\ error = None) =>
        sequence.rank < sequence.batch_size

\* C8: a train_sequence, test_sequence or predict call leaves the model, with
\* its graph data and cached tensors, as it was, and the caller's index subset
\* holds after the call what was passed.
QueriesLeaveModelAndIndex ==
    [][lastCall'.op \in QueryOps =>
           /\ model' = model
           /\ lastCall'.indexAfter = lastCall'.index]_vars

\* C8 witness: FastGCN.train_sequence returned a sequencer for an index subset
\* that is not in ascending order
TrainSequenceOnUnsortedIndex ==
    /\ model.kind = "FastGCN"
    /\ lastCall.op = "train_sequence"
    /\ sequence.type = "FastGCNBatchSequence"
    /\ Len(lastCall.index) = MaxIdx
    /\ lastCall.index[1] > lastCall.index[MaxIdx]
    /\ lastCall.indexAfter = lastCall.index

\* C9: a constructed RobustGCN model holds exactly two adjacency tensors, and
\* every batch of its sequencers and every predict call passes four inputs.
RobustHoldsTwoAdjacencies ==
    model.kind = "RobustGCN" =>
        /\ model.tf_adj.t = "list"
        /\ Len(Unpack(model.tf_adj).items) = 2
        /\ batch # NoBatch => Len(batch.inputs) = 4

\* the row positions 0 .. n - 1
Positions(n) == [k \in 1 .. n |-> k - 1]

\* the node rows of the label vectors and adjacency slices of batches
\* 0 .. length - 1, one after the other
EpochRows(seq, part) ==
    Concat([i \in 1 .. Length(seq) |-> SelectRows(part, BatchSlice(seq, i - 1)).rows])

\* C3: an importance-sampling sequencer over the N rows of an index subset has
\* one batch without a batch size and ceil(N / batch_size) batches with one;
\* the batches are runs of consecutive rows, each of batch_size rows except
\* that the last may be shorter, and one after the other they are the N rows,
\* each once, in the labels and in the adjacency; a batch get_batch(i) returns
\* holds the rows of run i.
BatchesCoverRowsOnce ==
    sequence.type = "FastGCNBatchSequence" =>
        LET N == Len(lastCall.index)
            size == sequence.batch_size
            length == Length(sequence)
        IN  /\ lastCall.op \in {"train_sequence", "test_sequence"} =>
                   /\ sequence.labels.rows = lastCall.index
                   /\ sequence.adj.rows = lastCall.index
                   /\ size = IF lastCall.op = "train_sequence" THEN model.batch_size
                             ELSE Absent
                   /\ size = Absent => length = 1
                   /\ size # Absent =>
                          /\ length * size >= N
                          /\ length > 0 => (length - 1) * size < N
                          /\ N > 0 => length > 0
            /\ EpochRows(sequence, sequence.labels) = sequence.labels.rows
            /\ EpochRows(sequence, sequence.adj) = sequence.adj.rows
            /\ Concat([i \in 1 .. length |-> BatchSlice(sequence, i - 1)])
                   = Positions(LeadingDim(sequence.adj))
            /\ \A i \in 0 .. length - 1 :
                   size # Absent =>
                       /\ Len(BatchSlice(sequence, i)) <= size
                       /\ i < length - 1 => Len(BatchSlice(sequence, i)) = size
            /\ (lastCall.op = "get_batch" /\ batch.type = "batch") =>
                   LET slice == BatchSlice(sequence, lastCall.index[1])
                   IN  /\ batch.labels.rows = SelectRows(sequence.labels, slice).rows
                       /\ batch.inputs[2].rows = SelectRows(sequence.adj, slice).rows

\* C3 witness: the last batch of a train sequencer over three rows with batch
\* size two was drawn, and it holds one row
ShortLastBatchDrawn ==
    /\ sequence.type = "FastGCNBatchSequence"
    /\ sequence.batch_size = MaxBatch
    /\ LeadingDim(sequence.labels) = MaxBatch + 1
    /\ lastCall.op = "get_batch"
    /\ lastCall.index = <<1>>
    /\ batch.type = "batch"
    /\ LeadingDim(batch.labels) = 1

RECURSIVE RngAfter(_, _)
RngAfter(s, n) == IF n = 0 THEN s ELSE RngAfter(RngNext(s), n - 1)

RaisesIffKwargs ==
    kwResult # NoCall =>
        /\ (kwResult.raised = "TypeError") <=> (kwResult.before # <<>>)
        /\ kwResult.raised \in {None, "TypeError"}
        /\ kwResult.raised = "TypeError" => kwResult.key = Head(kwResult.before).key
        /\ kwargs = kwResult.before

\* C10 witness: raise_if_kwargs raised on a mapping of several keys
RaisedOnSeveralKeys ==
    /\ kwResult # NoCall
    /\ kwResult.raised = "TypeError"
    /\ Len(kwargs) = MaxKw
    /\ kwResult.key = kwargs[1].key
    /\ kwResult.key # kwargs[MaxKw].key

====
